---- MODULE Spec2Model ----
(***************************************************************************)
(* Model of the LAN throughput benchmark: server.py (offer broadcaster,    *)
(* UDP request loop, TCP accept loop and per-connection handlers) and      *)
(* client.py (discovery loop, thread fan-out/fan-in, TCP and UDP transfer  *)
(* sessions).                                                              *)
(*                                                                         *)
(* Byte strings.  A datagram is a byte string, kept as an explicit prefix  *)
(* of bytes (hdr) followed by a run of pad filler bytes (b'X' = 88).  The  *)
(* struct module's big-endian packing is modelled byte by byte.  The TCP   *)
(* request line is a sequence of one-character strings.                    *)
(*                                                                         *)
(* Time.  One Tick is one second.  A blocked recvfrom with a datagram in   *)
(* its buffer returns before time advances, and a read whose timeout has   *)
(* expired raises before time advances further.                            *)
(*                                                                         *)
(* Threads take one step per blocking socket call; everything between two  *)
(* blocking calls of a thread is one action.                               *)
(***************************************************************************)
EXTENDS Integers, Sequences, FiniteSets, TLC

\* ------------------------------------------------------------ bounds
\* largest number of connections, TCP and UDP together, the user may enter
MaxConn == 2
\* Offer broadcasts the server sends in a run
MaxOffers == 2
\* datagrams from other hosts that reach the two well-known sockets in a run
MaxForeign == 1

\* ------------------------------------------------------------ constants
\* 0xabcddcba, as struct's '!I' lays it out: AB CD DC BA
MAGIC_COOKIE == <<171, 205, 220, 186>>
OFFER_MESSAGE_TYPE == 2
REQUEST_MESSAGE_TYPE == 3
PAYLOAD_MESSAGE_TYPE == 4
UDP_PORT == 13117
TCP_PORT == 20000
BUFFER_SIZE == 1024
BROADCAST_INTERVAL == 1
\* chunk_size of handle_tcp_client
CHUNK_SIZE == 4096
\* udp_socket.settimeout(1)
UDP_TIMEOUT == 1
\* file_size = None
None == -1
\* ord('X'), the payload filler byte
FILLER == 88

Min(a, b) == IF a < b THEN a ELSE b

\* ------------------------------------------------------------ struct codec
RECURSIVE BE(_, _)
\* struct.pack of one unsigned big-endian field of w bytes
BE(n, w) == IF w = 0 THEN <<>> ELSE Append(BE(n \div 256, w - 1), n % 256)

RECURSIVE FromBE(_)
\* struct.unpack of one unsigned big-endian field
FromBE(s) ==
    IF s = <<>> THEN 0
    ELSE FromBE(SubSeq(s, 1, Len(s) - 1)) * 256 + s[Len(s)]

\* a byte string: hdr followed by pad filler bytes
Bytes(h, p) == [hdr |-> h, pad |-> p]

\* len(data)
DLen(d) == Len(d.hdr) + d.pad

\* data[i-1]
ByteAt(d, i) == IF i <= Len(d.hdr) THEN d.hdr[i] ELSE FILLER

\* data[a-1:b], for b <= len(data)
Slice(d, a, b) == [i \in 1..(b - a + 1) |-> ByteAt(d, a + i - 1)]

\* struct.pack('!IBHH', MAGIC_COOKIE, OFFER_MESSAGE_TYPE, udp_port, tcp_port)
PackOffer(cookie, type, udp_port, tcp_port) ==
    Bytes(cookie \o BE(type, 1) \o BE(udp_port, 2) \o BE(tcp_port, 2), 0)

\* struct.pack('!IBQ', MAGIC_COOKIE, REQUEST_MESSAGE_TYPE, file_size)
PackRequest(cookie, type, size) ==
    Bytes(cookie \o BE(type, 1) \o BE(size, 8), 0)

\* struct.pack('!IBQQ', ...) followed by
\* b'X' * (BUFFER_SIZE - len(payload_header))
PackPayload(cookie, type, total_segments, segment) ==
    LET payload_header == cookie \o BE(type, 1) \o BE(total_segments, 8)
                              \o BE(segment, 8)
    IN  Bytes(payload_header, BUFFER_SIZE - Len(payload_header))

\* struct.unpack('!IBQQ', data[:21]), used to read what the server sent
UnpackPayload(d) ==
    [magic_cookie   |-> Slice(d, 1, 4),
     message_type   |-> FromBE(Slice(d, 5, 5)),
     total_segments |-> FromBE(Slice(d, 6, 13)),
     segment        |-> FromBE(Slice(d, 14, 21))]

\* struct.unpack('!IBHH', data[:9])
UnpackOffer(d) ==
    [magic_cookie |-> Slice(d, 1, 4),
     message_type |-> FromBE(Slice(d, 5, 5)),
     udp_port     |-> FromBE(Slice(d, 6, 7)),
     tcp_port     |-> FromBE(Slice(d, 8, 9))]

\* struct.unpack('!IBQ', data[:13])
UnpackRequest(d) ==
    [magic_cookie |-> Slice(d, 1, 4),
     message_type |-> FromBE(Slice(d, 5, 5)),
     file_size    |-> FromBE(Slice(d, 6, 13))]

\* ------------------------------------------------------------ TCP request line
DIGITS == <<"0", "1", "2", "3", "4", "5", "6", "7", "8", "9">>

WHITESPACE == {" ", "\n", "\t", "\r"}

RECURSIVE Str(_)
\* f"{file_size}" of a non-negative integer
Str(n) ==
    IF n < 10 THEN <<DIGITS[n + 1]>>
    ELSE Append(Str(n \div 10), DIGITS[(n % 10) + 1])

\* f"{file_size}\n".encode()
RequestLine(n) == Append(Str(n), "\n")

RECURSIVE LStrip(_)
LStrip(s) ==
    IF s # <<>> /\ Head(s) \in WHITESPACE THEN LStrip(Tail(s)) ELSE s

RECURSIVE RStrip(_)
RStrip(s) ==
    IF s # <<>> /\ s[Len(s)] \in WHITESPACE
    THEN RStrip(SubSeq(s, 1, Len(s) - 1)) ELSE s

\* str.strip()
Strip(s) == RStrip(LStrip(s))

DigitValue(c) == CHOOSE v \in 0..9 : DIGITS[v + 1] = c

\* int(data) raises ValueError unless data is a string of decimal digits
IsInt(s) == s # <<>> /\ \A i \in 1..Len(s) : \E v \in 0..9 : DIGITS[v + 1] = s[i]

RECURSIVE ParseInt(_)
\* int(data) on a string of decimal digits
ParseInt(s) ==
    IF s = <<>> THEN 0
    ELSE ParseInt(SubSeq(s, 1, Len(s) - 1)) * 10 + DigitValue(s[Len(s)])

\* ------------------------------------------------------------ state
VARIABLES
    stdin,            \* what the user will type: [fs, t, u]
    file_size,        \* client.py globals, None until prompted
    tcp_connections,
    udp_connections,
    cpc,              \* start_client: "listen", "start" or "join"
    ci,               \* index of the thread the start or join loop is at
    round,            \* offers accepted so far
    threads,          \* the round's threads, in list order
    cliSock,          \* receive buffer of the client's discovery socket
    conns,            \* TCP connections with their server-side handler
    srvSock,          \* receive buffer of the server's UDP socket
    acceptThreads,    \* live accept_tcp_connections threads
    udpHandlers,      \* handle_udp_request threads, in spawn order
    bsleep,           \* ticks left of the broadcaster's time.sleep
    offers,           \* sendto calls of the broadcaster so far
    foreign           \* datagrams other hosts have sent so far

vars == <<stdin, file_size, tcp_connections, udp_connections, cpc, ci, round,
          threads, cliSock, conns, srvSock, acceptThreads, udpHandlers,
          bsleep, offers, foreign>>

clientMain == <<stdin, file_size, tcp_connections, udp_connections, cpc, ci,
                round, cliSock>>
serverUdp  == <<srvSock, acceptThreads, udpHandlers>>
envVars    == <<bsleep, offers, foreign>>

\* addresses: <<0, 0>> the server, <<0, k>> another host, <<r, i>> the socket
\* of thread i of the client's round r
SERVER_ADDR == <<0, 0>>
FOREIGN_ADDR == <<0, 1>>

TimeoutTicks == UDP_TIMEOUT
SleepTicks == BROADCAST_INTERVAL

\* a datagram in a receive buffer, with the address recvfrom reports
Dgram(d, a) == [data |-> d, from |-> a]

\* a datagram is queued on a socket's receive buffer
Deliver(q, d, a) == Append(q, Dgram(d, a))

\* ------------------------------------------------------------ client: start_client
\* threading.Thread(target=..., args=(server_address[0], port, file_size, i + 1))
NewThread(k, i, p, fs) ==
    [kind |-> k, id |-> i, port |-> p, fs |-> fs, st |-> "new",
     total |-> 0, elapsed |-> 0, idle |-> 0, rate |-> <<0, 1>>, sock |-> <<>>,
     speed |-> <<0, 1>>, open |-> FALSE]

\* a validation that forgets the message type
ValidOfferAnyType(d) ==
    /\ ~(DLen(d) < 9)
    /\ ~(UnpackOffer(d).magic_cookie # MAGIC_COOKIE)

\* len(data) >= 9, magic cookie and message type of the unpacked header
ValidOffer(d) ==
    /\ ~(DLen(d) < 9)
    /\ ~(UnpackOffer(d).magic_cookie # MAGIC_COOKIE
            \/ UnpackOffer(d).message_type # OFFER_MESSAGE_TYPE)

\* the second loop running over the first loop's count
MakeThreadsOneCount(tcp_port, udp_port, fs, t, u) ==
    [i \in 1..t |-> NewThread("TCP", i, tcp_port, fs)]
        \o [i \in 1..t |-> NewThread("UDP", i, udp_port, fs)]

\* the two loops that fill the list threads
MakeThreads(tcp_port, udp_port, fs, t, u) ==
    [i \in 1..t |-> NewThread("TCP", i, tcp_port, fs)]
        \o [i \in 1..u |-> NewThread("UDP", i, udp_port, fs)]

\* a listener that acts on a datagram whatever the main loop is doing
ClientRecvAnytime ==
    /\ cliSock # <<>>
    /\ LET data == Head(cliSock).data
           o == UnpackOffer(data)
           fs == IF file_size = None THEN stdin.fs ELSE file_size
           t == IF tcp_connections = None THEN stdin.t ELSE tcp_connections
           u == IF udp_connections = None THEN stdin.u ELSE udp_connections
       IN  /\ cliSock' = Tail(cliSock)
           /\ IF ValidOffer(data)
              THEN /\ file_size' = fs
                   /\ tcp_connections' = t
                   /\ udp_connections' = u
                   /\ threads' = MakeThreads(o.tcp_port, o.udp_port, fs, t, u)
                   /\ round' = round + 1
                   /\ ci' = 1
                   /\ cpc' = IF t + u = 0 THEN "join" ELSE "start"
              ELSE UNCHANGED <<file_size, tcp_connections, udp_connections,
                               threads, round, ci, cpc>>
    /\ UNCHANGED <<stdin, conns, serverUdp, envVars>>

\* One iteration of the discovery loop, from recvfrom to the first
\* thread.start(): a datagram that fails validation is dropped by continue;
\* a valid Offer runs prompt_settings and builds the thread list.
ClientRecv ==
    /\ cpc = "listen"
    /\ cliSock # <<>>
    /\ LET data == Head(cliSock).data
           o == UnpackOffer(data)
           fs == IF file_size = None THEN stdin.fs ELSE file_size
           t == IF tcp_connections = None THEN stdin.t ELSE tcp_connections
           u == IF udp_connections = None THEN stdin.u ELSE udp_connections
       IN  /\ cliSock' = Tail(cliSock)
           /\ IF ValidOffer(data)
              THEN /\ file_size' = fs
                   /\ tcp_connections' = t
                   /\ udp_connections' = u
                   /\ threads' = MakeThreads(o.tcp_port, o.udp_port, fs, t, u)
                   /\ round' = round + 1
                   /\ ci' = 1
                   /\ cpc' = IF t + u = 0 THEN "join" ELSE "start"
              ELSE UNCHANGED <<file_size, tcp_connections, udp_connections,
                               threads, round, ci, cpc>>
    /\ UNCHANGED <<stdin, conns, serverUdp, envVars>>

\* thread.start() of the next thread of the list
ClientStart ==
    /\ cpc = "start"
    /\ threads' = [threads EXCEPT ![ci].st = "run"]
    /\ IF ci = Len(threads)
       THEN cpc' = "join" /\ ci' = 1
       ELSE cpc' = cpc /\ ci' = ci + 1
    /\ UNCHANGED <<stdin, file_size, tcp_connections, udp_connections, round,
                   cliSock, conns, serverUdp, envVars>>

\* a thread whose target has returned
Terminated(th) == th.st \in {"finished", "error"}

\* a join that returns for a thread that was merely started
JoinReturnsEarly(th) == th.st # "new"

\* a join that waits for a result only a successful session delivers
JoinReturnsOnSuccess(th) == th.st = "finished"

\* thread.join() returns once the thread has terminated
JoinReturns(th) == Terminated(th)

\* thread.join() of the next thread of the list
ClientJoin ==
    /\ cpc = "join"
    /\ ci <= Len(threads)
    /\ JoinReturns(threads[ci])
    /\ ci' = ci + 1
    /\ UNCHANGED <<stdin, file_size, tcp_connections, udp_connections, cpc,
                   round, threads, cliSock, conns, serverUdp, envVars>>

\* print("All transfers complete, ...") and back to recvfrom
RoundComplete ==
    /\ cpc = "join"
    /\ ci > Len(threads)
    /\ cpc' = "listen"
    /\ UNCHANGED <<stdin, file_size, tcp_connections, udp_connections, ci,
                   round, threads, cliSock, conns, serverUdp, envVars>>

\* ------------------------------------------------------------ client: perform_udp_transfer
\* the division without its guard
TransferSpeedUnguarded(n, total_time) == <<n * 8, total_time>>

\* (n * 8) / total_time if total_time > 0 else 0, as the exact fraction
\* <<numerator, denominator>>
TransferSpeed(n, total_time) ==
    IF total_time > 0 THEN <<n * 8, total_time>> ELSE <<0, 1>>

\* the rate without its clamp
SuccessRateUnclamped(total_bytes_received, fs) ==
    IF fs # 0 THEN <<total_bytes_received * 100, fs>> ELSE <<0, 1>>

\* a rate that takes nothing expected for everything received
SuccessRateFullWhenEmpty(total_bytes_received, fs) ==
    IF fs # 0
    THEN <<Min(100 * fs, total_bytes_received * 100), fs>>
    ELSE <<100, 1>>

\* min(100, (total_bytes_received / file_size) * 100) if file_size else 0,
\* as the exact fraction <<numerator, denominator>>
SuccessRate(total_bytes_received, fs) ==
    IF fs # 0
    THEN <<Min(100 * fs, total_bytes_received * 100), fs>>
    ELSE <<0, 1>>

\* The session's socket, its Request and start_time.  The Request reaches
\* the server's socket when it is addressed to the port the server is bound
\* to and is not lost on the way.
UdpSendRequest(i) ==
    /\ i \in DOMAIN threads
    /\ threads[i].kind = "UDP"
    /\ threads[i].st = "run"
    /\ LET request_packet ==
               PackRequest(MAGIC_COOKIE, REQUEST_MESSAGE_TYPE, threads[i].fs)
       IN  \E lost \in BOOLEAN :
               srvSock' = IF ~lost /\ threads[i].port = UDP_PORT
                          THEN Deliver(srvSock, request_packet, <<round, i>>)
                          ELSE srvSock
    /\ threads' = [threads EXCEPT ![i].st = "recv", ![i].total = 0,
                                  ![i].elapsed = 0, ![i].idle = 0,
                                  ![i].open = TRUE]
    /\ UNCHANGED <<clientMain, conns, acceptThreads, udpHandlers, envVars>>

\* socket.socket or sendto raises OSError (no route, no buffer space): the
\* except clause prints the error line and the function returns
UdpSendFails(i) ==
    /\ i \in DOMAIN threads
    /\ threads[i].kind = "UDP"
    /\ threads[i].st = "run"
    /\ threads' = [threads EXCEPT ![i].st = "error", ![i].open = TRUE]
    /\ UNCHANGED <<clientMain, conns, serverUdp, envVars>>

\* recvfrom returns a datagram: its length is added and the loop calls
\* settimeout(1) and recvfrom again
UdpRecv(i) ==
    /\ i \in DOMAIN threads
    /\ threads[i].kind = "UDP"
    /\ threads[i].st = "recv"
    /\ threads[i].sock # <<>>
    /\ threads' = [threads EXCEPT
                      ![i].total = @ + DLen(Head(threads[i].sock).data),
                      ![i].sock = Tail(@),
                      ![i].idle = 0]
    /\ UNCHANGED <<clientMain, conns, serverUdp, envVars>>

\* a loop that also stops once the expected bytes are in
UdpLoopEndsOnLastSegment(th) ==
    th.sock = <<>> /\ (th.idle = TimeoutTicks \/ th.total >= th.fs)

\* a loop that gives up only once the expected bytes are in
UdpLoopEndsWhenComplete(th) ==
    th.sock = <<>> /\ th.idle = TimeoutTicks /\ th.total >= th.fs

\* the condition under which the receive loop is left
UdpLoopEnds(th) == th.sock = <<>> /\ th.idle = TimeoutTicks

\* recvfrom raises socket.timeout: the loop breaks, the rates are computed,
\* the result line is printed and the function returns; nothing in it closes
\* udp_socket
UdpTimeout(i) ==
    /\ i \in DOMAIN threads
    /\ threads[i].kind = "UDP"
    /\ threads[i].st = "recv"
    /\ UdpLoopEnds(threads[i])
    /\ threads' = [threads EXCEPT
                      ![i].st = "finished",
                      ![i].speed = TransferSpeed(threads[i].total,
                                                 threads[i].elapsed),
                      ![i].rate = SuccessRate(threads[i].total, threads[i].fs)]
    /\ UNCHANGED <<clientMain, conns, serverUdp, envVars>>

\* perform_udp_transfer has returned and its socket object is unreferenced:
\* the interpreter may finalize it, which closes the descriptor, at a moment
\* of its choosing
UdpSocketFinalized(i) ==
    /\ i \in DOMAIN threads
    /\ threads[i].kind = "UDP"
    /\ Terminated(threads[i])
    /\ threads[i].open
    /\ threads' = [threads EXCEPT ![i].open = FALSE]
    /\ UNCHANGED <<clientMain, conns, serverUdp, envVars>>

\* ------------------------------------------------------------ server: UDP
\* a loop that serves each Request itself before it receives the next
ServerRecvInline ==
    /\ srvSock # <<>>
    /\ \A h \in DOMAIN udpHandlers : udpHandlers[h].pc = "done"
    /\ srvSock' = Tail(srvSock)
    /\ udpHandlers' = Append(udpHandlers,
                             [data |-> Head(srvSock).data,
                              client_addr |-> Head(srvSock).from,
                              pc |-> "run", total_segments |-> 0,
                              segment |-> 0, out |-> <<>>])
    /\ acceptThreads' = acceptThreads + 1
    /\ UNCHANGED <<clientMain, threads, conns, envVars>>

\* One iteration of start_server's loop, from recvfrom returning to the next
\* recvfrom: the handler thread is started, and the top of the loop starts
\* another accept_tcp_connections thread.
ServerRecv ==
    /\ srvSock # <<>>
    /\ srvSock' = Tail(srvSock)
    /\ udpHandlers' = Append(udpHandlers,
                             [data |-> Head(srvSock).data,
                              client_addr |-> Head(srvSock).from,
                              pc |-> "run", total_segments |-> 0,
                              segment |-> 0, out |-> <<>>])
    /\ acceptThreads' = acceptThreads + 1
    /\ UNCHANGED <<clientMain, threads, conns, envVars>>

\* len(data) >= 13, magic cookie and message type of the unpacked header
ValidRequest(d) ==
    /\ ~(DLen(d) < 13)
    /\ ~(UnpackRequest(d).magic_cookie # MAGIC_COOKIE
            \/ UnpackRequest(d).message_type # REQUEST_MESSAGE_TYPE)

\* a segment count that always adds the last, partial segment
TotalSegmentsPlusOne(fs) == (fs \div BUFFER_SIZE) + 1

\* file_size // BUFFER_SIZE + (1 if file_size % BUFFER_SIZE != 0 else 0)
TotalSegments(fs) ==
    (fs \div BUFFER_SIZE) + (IF fs % BUFFER_SIZE # 0 THEN 1 ELSE 0)

\* handle_udp_request up to its send loop
HandleUdpStart(h) ==
    /\ h \in DOMAIN udpHandlers
    /\ udpHandlers[h].pc = "run"
    /\ LET data == udpHandlers[h].data
           n == TotalSegments(UnpackRequest(data).file_size)
       IN  IF ValidRequest(data)
           THEN udpHandlers' = [udpHandlers EXCEPT
                                   ![h].total_segments = n,
                                   ![h].pc = IF n > 0 THEN "send" ELSE "done"]
           ELSE udpHandlers' = [udpHandlers EXCEPT ![h].pc = "done"]
    /\ UNCHANGED <<clientMain, threads, conns, srvSock, acceptThreads, envVars>>

\* a datagram sent to addr reaches the socket of a session that is reading
SessionListening(a) ==
    /\ a[1] = round
    /\ a[2] \in DOMAIN threads
    /\ threads[a[2]].kind = "UDP"
    /\ threads[a[2]].st = "recv"

\* a payload that is the header alone, without the filler
NextPayloadUnpadded(hd) ==
    Bytes(PackPayload(MAGIC_COOKIE, PAYLOAD_MESSAGE_TYPE, hd.total_segments,
                      hd.segment).hdr, 0)

\* the payload of one iteration of the send loop
NextPayload(hd) ==
    PackPayload(MAGIC_COOKIE, PAYLOAD_MESSAGE_TYPE, hd.total_segments, hd.segment)

\* one udp_socket.sendto(payload, client_addr) of the send loop
HandleUdpSend(h) ==
    /\ h \in DOMAIN udpHandlers
    /\ udpHandlers[h].pc = "send"
    /\ LET hd == udpHandlers[h]
           payload == NextPayload(hd)
           a == hd.client_addr
       IN  /\ udpHandlers' = [udpHandlers EXCEPT
                  ![h].out = Append(@, [data |-> payload, to |-> a]),
                  ![h].segment = @ + 1,
                  ![h].pc = IF hd.segment + 1 = hd.total_segments
                            THEN "done" ELSE "send"]
           /\ \E lost \in BOOLEAN :
                  threads' = IF ~lost /\ SessionListening(a)
                             THEN [threads EXCEPT ![a[2]].sock =
                                      Deliver(@, payload, SERVER_ADDR)]
                             ELSE threads
    /\ UNCHANGED <<clientMain, conns, srvSock, acceptThreads, envVars>>

\* ------------------------------------------------------------ TCP
\* the connection of thread i of the current round
ConnOf(i) == CHOOSE k \in DOMAIN conns : conns[k].peer = <<round, i>>

\* a connection queued on the listening socket, with the bytes its peer has
\* already sent; closed and pclosed tell which end has closed its socket
NewConn(a, line) ==
    [peer |-> a, c2s |-> line, s2c |-> 0, closed |-> FALSE, pclosed |-> FALSE,
     hpc |-> "backlog", file_size |-> None, bytes_sent |-> 0]

\* connect and sendall inside the with block: the connection is queued on the
\* listening socket and the request line is in flight; a port nobody listens
\* on refuses, the with block closes the socket and the exception ends the
\* session with its error line
TcpConnect(i) ==
    /\ i \in DOMAIN threads
    /\ threads[i].kind = "TCP"
    /\ threads[i].st = "run"
    /\ IF threads[i].port = TCP_PORT
       THEN /\ conns' = Append(conns,
                   NewConn(<<round, i>>, RequestLine(threads[i].fs)))
            /\ threads' = [threads EXCEPT ![i].st = "recv", ![i].open = TRUE]
       ELSE /\ conns' = conns
            /\ threads' = [threads EXCEPT ![i].st = "error", ![i].open = FALSE]
    /\ UNCHANGED <<clientMain, serverUdp, envVars>>

\* the lengths tcp_socket.recv(BUFFER_SIZE) may return with avail bytes in flight
RecvSizes(avail) ==
    {Min(avail, BUFFER_SIZE), (Min(avail, BUFFER_SIZE) + 1) \div 2}

\* tcp_socket.recv returns data
TcpRecv(i) ==
    /\ i \in DOMAIN threads
    /\ threads[i].kind = "TCP"
    /\ threads[i].st = "recv"
    /\ LET k == ConnOf(i)
       IN  /\ conns[k].s2c > 0
           /\ \E n \in RecvSizes(conns[k].s2c) :
                  /\ conns' = [conns EXCEPT ![k].s2c = @ - n]
                  /\ threads' = [threads EXCEPT ![i].total = @ + n]
    /\ UNCHANGED <<clientMain, serverUdp, envVars>>

\* tcp_socket.recv returns b'': the loop breaks, the speed is computed from
\* file_size, the result line is printed and the with block closes the socket
TcpEof(i) ==
    /\ i \in DOMAIN threads
    /\ threads[i].kind = "TCP"
    /\ threads[i].st = "recv"
    /\ conns[ConnOf(i)].s2c = 0
    /\ conns[ConnOf(i)].closed
    /\ threads' = [threads EXCEPT
                      ![i].st = "finished",
                      ![i].speed = TransferSpeed(threads[i].fs,
                                                 threads[i].elapsed),
                      ![i].open = FALSE]
    /\ conns' = [conns EXCEPT ![ConnOf(i)].pclosed = TRUE]
    /\ UNCHANGED <<clientMain, serverUdp, envVars>>

\* tcp_socket.recv raises (the connection is reset on the way): the with
\* block closes the socket and the except clause prints the error line
TcpRecvFails(i) ==
    /\ i \in DOMAIN threads
    /\ threads[i].kind = "TCP"
    /\ threads[i].st = "recv"
    /\ threads' = [threads EXCEPT ![i].st = "error", ![i].open = FALSE]
    /\ conns' = [conns EXCEPT ![ConnOf(i)].pclosed = TRUE, ![ConnOf(i)].s2c = 0]
    /\ UNCHANGED <<clientMain, serverUdp, envVars>>

\* tcp_socket.accept() in one of the accept threads, which starts the handler
AcceptTcp(k) ==
    /\ acceptThreads > 0
    /\ k \in DOMAIN conns
    /\ conns[k].hpc = "backlog"
    /\ conns' = [conns EXCEPT ![k].hpc = "recv"]
    /\ UNCHANGED <<clientMain, threads, serverUdp, envVars>>

\* the prefixes of the bytes in flight that conn.recv(BUFFER_SIZE) may
\* return; with nothing in flight it returns b'' once the peer has closed
FirstReads(c2s) ==
    IF c2s = <<>> THEN {<<>>}
    ELSE {SubSeq(c2s, 1, n) : n \in 1..Min(Len(c2s), BUFFER_SIZE)}

\* an exception path that forgets conn.close()
HandlerEndsLeftOpen(c) == [c EXCEPT !.hpc = "done"]

\* the handler's exception path: except prints, finally runs conn.close()
HandlerEnds(c) == [c EXCEPT !.hpc = "done", !.closed = TRUE]

\* conn.recv(BUFFER_SIZE).decode().strip() and int(data): the handler goes on
\* to its send loop, or closes at once when the size is not positive or
\* int() raises ValueError
HandleTcpRecv(k) ==
    /\ k \in DOMAIN conns
    /\ conns[k].hpc = "recv"
    /\ conns[k].c2s # <<>> \/ conns[k].pclosed
    /\ \E read \in FirstReads(conns[k].c2s) :
           LET data == Strip(read)
               rest == SubSeq(conns[k].c2s, Len(read) + 1, Len(conns[k].c2s))
           IN  IF IsInt(data)
               THEN conns' = [conns EXCEPT
                        ![k].c2s = rest,
                        ![k].file_size = ParseInt(data),
                        ![k].hpc = IF ParseInt(data) > 0 THEN "send" ELSE "done",
                        ![k].closed = ~(ParseInt(data) > 0)]
               ELSE conns' = [conns EXCEPT
                        ![k] = HandlerEnds([@ EXCEPT !.c2s = rest])]
    /\ UNCHANGED <<clientMain, threads, serverUdp, envVars>>

\* min(chunk_size, remaining)
ChunkSize(fs, bytes_sent) == Min(CHUNK_SIZE, fs - bytes_sent)

\* one conn.sendall of the send loop; after the last one, conn.close().
\* The bytes sent to a peer that has closed are dropped.
HandleTcpSend(k) ==
    /\ k \in DOMAIN conns
    /\ conns[k].hpc = "send"
    /\ LET c == conns[k]
           current_chunk_size == ChunkSize(c.file_size, c.bytes_sent)
           done == ~(c.bytes_sent + current_chunk_size < c.file_size)
       IN  conns' = [conns EXCEPT
                        ![k].s2c = IF c.pclosed THEN 0 ELSE @ + current_chunk_size,
                        ![k].bytes_sent = @ + current_chunk_size,
                        ![k].hpc = IF done THEN "done" ELSE "send",
                        ![k].closed = done]
    /\ UNCHANGED <<clientMain, threads, serverUdp, envVars>>

\* conn.sendall raises because the peer has closed or reset the connection:
\* except prints and finally closes
HandleTcpSendFails(k) ==
    /\ k \in DOMAIN conns
    /\ conns[k].hpc = "send"
    /\ conns[k].pclosed
    /\ conns' = [conns EXCEPT ![k] = HandlerEnds(@)]
    /\ UNCHANGED <<clientMain, threads, serverUdp, envVars>>

\* ------------------------------------------------------------ server: send_offers
\* udp_socket.sendto(message, ('<broadcast>', UDP_PORT)) and the start of
\* time.sleep(BROADCAST_INTERVAL): the broadcast reaches every socket bound
\* to UDP_PORT, the server's own included, unless lost
SendOffer ==
    /\ bsleep = 0
    /\ offers < MaxOffers
    /\ LET message == PackOffer(MAGIC_COOKIE, OFFER_MESSAGE_TYPE, UDP_PORT, TCP_PORT)
       IN  /\ \E lost \in BOOLEAN :
                  cliSock' = IF lost THEN cliSock
                             ELSE Deliver(cliSock, message, SERVER_ADDR)
           /\ \E lost \in BOOLEAN :
                  srvSock' = IF lost THEN srvSock
                             ELSE Deliver(srvSock, message, SERVER_ADDR)
    /\ bsleep' = SleepTicks
    /\ offers' = offers + 1
    /\ UNCHANGED <<stdin, file_size, tcp_connections, udp_connections, cpc, ci,
                   round, threads, conns, acceptThreads, udpHandlers, foreign>>

\* udp_socket.sendto raises: the except clause prints the error and the loop
\* goes straight back to sendto, the time.sleep of the try block skipped
SendOfferFails ==
    /\ bsleep = 0
    /\ offers < MaxOffers
    /\ offers' = offers + 1
    /\ UNCHANGED <<clientMain, threads, conns, serverUdp, bsleep, foreign>>

\* ------------------------------------------------------------ environment
BAD_COOKIE == <<171, 205, 220, 187>>

\* a byte string cut to its first n bytes
Truncate(d, n) == Bytes(SubSeq(d.hdr, 1, n), 0)

\* datagrams of other hosts that may reach the client's discovery socket
ClientForeign ==
    { Truncate(PackOffer(MAGIC_COOKIE, OFFER_MESSAGE_TYPE, UDP_PORT, TCP_PORT), 8),
      PackOffer(BAD_COOKIE, OFFER_MESSAGE_TYPE, UDP_PORT, TCP_PORT),
      PackOffer(MAGIC_COOKIE, REQUEST_MESSAGE_TYPE, UDP_PORT, TCP_PORT),
      PackRequest(MAGIC_COOKIE, REQUEST_MESSAGE_TYPE, 1),
      PackOffer(MAGIC_COOKIE, OFFER_MESSAGE_TYPE, UDP_PORT + 1, TCP_PORT + 1),
      Bytes(PackOffer(MAGIC_COOKIE, OFFER_MESSAGE_TYPE, UDP_PORT, TCP_PORT).hdr, 1) }

\* datagrams of other hosts that may reach the server's UDP socket
ServerForeign ==
    { Truncate(PackRequest(MAGIC_COOKIE, REQUEST_MESSAGE_TYPE, BUFFER_SIZE), 12),
      PackRequest(BAD_COOKIE, REQUEST_MESSAGE_TYPE, BUFFER_SIZE),
      PackRequest(MAGIC_COOKIE, PAYLOAD_MESSAGE_TYPE, BUFFER_SIZE),
      PackRequest(MAGIC_COOKIE, REQUEST_MESSAGE_TYPE, BUFFER_SIZE + 1),
      Bytes(<<>>, 0) }

\* a UDP session blocked in recvfrom
Reading(th) == th.kind = "UDP" /\ th.st = "recv"

\* a session between its start_time and its end_time
Timed(th) == th.st = "recv"

\* datagrams of other hosts that may reach the socket of a UDP session
SessionForeign ==
    { PackPayload(BAD_COOKIE, PAYLOAD_MESSAGE_TYPE, 1, 0),
      PackPayload(MAGIC_COOKIE, OFFER_MESSAGE_TYPE, 1, 0),
      Truncate(PackPayload(MAGIC_COOKIE, PAYLOAD_MESSAGE_TYPE, 1, 0), 20),
      PackOffer(MAGIC_COOKIE, OFFER_MESSAGE_TYPE, UDP_PORT, TCP_PORT) }

ForeignToSession(i) ==
    /\ foreign < MaxForeign
    /\ i \in DOMAIN threads
    /\ Reading(threads[i])
    /\ \E d \in SessionForeign :
           threads' = [threads EXCEPT ![i].sock = Deliver(@, d, FOREIGN_ADDR)]
    /\ foreign' = foreign + 1
    /\ UNCHANGED <<clientMain, conns, serverUdp, bsleep, offers>>

\* what another host may do on a TCP connection to the server: send a line
\* that is no number, send an empty line, or close without sending
ForeignLines ==
    { [line |-> <<"a", "b", "\n">>, closes |-> FALSE],
      [line |-> <<"\n">>, closes |-> FALSE],
      [line |-> <<>>, closes |-> TRUE] }

ForeignConnect ==
    /\ foreign < MaxForeign
    /\ \E f \in ForeignLines :
           conns' = Append(conns, [NewConn(FOREIGN_ADDR, f.line)
                                      EXCEPT !.pclosed = f.closes])
    /\ foreign' = foreign + 1
    /\ UNCHANGED <<clientMain, threads, serverUdp, bsleep, offers>>

ForeignToClient ==
    /\ foreign < MaxForeign
    /\ \E d \in ClientForeign : cliSock' = Deliver(cliSock, d, FOREIGN_ADDR)
    /\ foreign' = foreign + 1
    /\ UNCHANGED <<stdin, file_size, tcp_connections, udp_connections, cpc, ci,
                   round, threads, conns, serverUdp, bsleep, offers>>

ForeignToServer ==
    /\ foreign < MaxForeign
    /\ \E d \in ServerForeign : srvSock' = Deliver(srvSock, d, FOREIGN_ADDR)
    /\ foreign' = foreign + 1
    /\ UNCHANGED <<clientMain, threads, conns, acceptThreads, udpHandlers,
                   bsleep, offers>>

\* Time advances by one tick while a timer is pending (a sleep or a receive
\* timeout): no blocked recvfrom has a datagram to return or an expired
\* timeout to raise.
Tick ==
    /\ \A i \in DOMAIN threads :
           Reading(threads[i]) =>
               threads[i].sock = <<>> /\ threads[i].idle < TimeoutTicks
    /\ bsleep > 0 \/ \E i \in DOMAIN threads : Reading(threads[i])
    /\ threads' = [i \in DOMAIN threads |->
                      IF Reading(threads[i])
                      THEN [threads[i] EXCEPT !.idle = @ + 1, !.elapsed = @ + 1]
                      ELSE IF Timed(threads[i])
                      THEN [threads[i] EXCEPT !.elapsed = @ + 1]
                      ELSE threads[i]]
    /\ bsleep' = IF bsleep > 0 THEN bsleep - 1 ELSE 0
    /\ UNCHANGED <<clientMain, conns, serverUdp, offers, foreign>>

\* ------------------------------------------------------------ specifications
\* the state once both programs are up: the client listens, the server's
\* main loop has started its first accept thread and waits in recvfrom, and
\* the broadcaster has sent `sent` Offers that nobody heard
InitWith(in, sent) ==
    /\ stdin \in in
    /\ file_size = None
    /\ tcp_connections = None
    /\ udp_connections = None
    /\ cpc = "listen"
    /\ ci = 1
    /\ round = 0
    /\ threads = <<>>
    /\ cliSock = <<>>
    /\ conns = <<>>
    /\ srvSock = <<>>
    /\ acceptThreads = 1
    /\ udpHandlers = <<>>
    /\ bsleep = 0
    /\ offers = sent
    /\ foreign = 0

ClientMain == ClientRecv \/ ClientStart \/ ClientJoin \/ RoundComplete

\* thread indices
ThreadIds == 1..MaxConn

UdpSession == \E i \in ThreadIds :
                  UdpSendRequest(i) \/ UdpRecv(i) \/ UdpTimeout(i)

TcpSession == \E i \in ThreadIds :
                  TcpConnect(i) \/ TcpRecv(i) \/ TcpEof(i)

ServerUdp == ServerRecv
                 \/ \E h \in DOMAIN udpHandlers : HandleUdpStart(h) \/ HandleUdpSend(h)

ServerTcp == \E k \in DOMAIN conns :
                 AcceptTcp(k) \/ HandleTcpRecv(k) \/ HandleTcpSend(k)

\* Orchestration: one Offer is heard, the user enters any numbers of TCP and
\* UDP connections, MaxConn together at most, and a file size of zero bytes
\* or of one byte.
Inputs == {in \in [fs : {0, 1}, t : 0..MaxConn, u : 0..MaxConn] :
              in.t + in.u <= MaxConn}

Init == InitWith(Inputs, MaxOffers - 1)

Next == ClientMain \/ UdpSession \/ TcpSession \/ ServerUdp \/ ServerTcp
            \/ SendOffer \/ Tick

Spec == Init /\ [][Next]_vars

\* UDP transfer: one Offer is heard and the user asks for one UDP session
\* and a file size at, next to and beyond the segment boundaries.
UdpSizes == {0, 1, BUFFER_SIZE, BUFFER_SIZE + 1, 5000}

InitUdp == InitWith([fs : UdpSizes, t : {0}, u : {1}], MaxOffers - 1)

NextUdp == ClientMain \/ UdpSession \/ ServerUdp \/ SendOffer \/ Tick

SpecUdp == InitUdp /\ [][NextUdp]_vars

\* Threads that can run are scheduled, time passes, and a blocked recvfrom
\* returns or times out.
SpecUdpFair ==
    /\ SpecUdp
    /\ WF_vars(Tick)
    /\ \A i \in ThreadIds :
           WF_vars(UdpSendRequest(i)) /\ WF_vars(UdpRecv(i)) /\ WF_vars(UdpTimeout(i))

\* TCP transfer: one Offer is heard and the user asks for one TCP session
\* and a file size of one or several digits, below and above one chunk.
TcpSizes == {0, 7, BUFFER_SIZE + 1, 5000}

InitTcp == InitWith([fs : TcpSizes, t : {1}, u : {0}], MaxOffers - 1)

NextTcp == ClientMain \/ TcpSession \/ ServerTcp \/ SendOffer \/ Tick
               \/ ServerRecv \/ \E h \in DOMAIN udpHandlers : HandleUdpStart(h)

SpecTcp == InitTcp /\ [][NextTcp]_vars

\* The client's threads and the server's TCP threads are scheduled when they
\* can run.
SpecTcpFair ==
    /\ SpecTcp
    /\ WF_vars(ClientMain) /\ WF_vars(TcpSession) /\ WF_vars(ServerTcp)

\* Request socket: one Offer is heard, the user asks for one UDP session of
\* one byte, and other hosts send datagrams to the server's UDP socket.
InitRequests == InitWith([fs : {1}, t : {0}, u : {1}], MaxOffers - 1)

NextRequests == NextUdp \/ ForeignToServer

SpecRequests == InitRequests /\ [][NextRequests]_vars

\* Discovery: one Offer is heard, other hosts send datagrams to the client's
\* discovery socket, and the user asks for one session of each kind of one
\* byte.
InitDiscovery == InitWith([fs : {1}, t : {1}, u : {1}], MaxOffers - 1)

NextDiscovery == Next \/ ForeignToClient

SpecDiscovery == InitDiscovery /\ [][NextDiscovery]_vars

\* Transport errors: one Offer is heard, the user asks for one session of
\* each kind, of one byte or of two segments, and the network may fail the
\* UDP session's sendto and reset the TCP connection.
InitErrors == InitWith([fs : {1, BUFFER_SIZE + 1}, t : {1}, u : {1}],
                       MaxOffers - 1)

Failures == \/ \E i \in ThreadIds : TcpRecvFails(i) \/ UdpSendFails(i)
            \/ \E k \in DOMAIN conns : HandleTcpSendFails(k)

NextErrors == Next \/ Failures

SpecErrors == InitErrors /\ [][NextErrors]_vars

\* The client's threads and the server's TCP threads are scheduled when they
\* can run, and time passes; the network is not obliged to fail.
SpecErrorsFair ==
    /\ SpecErrors
    /\ WF_vars(ClientMain) /\ WF_vars(UdpSession) /\ WF_vars(TcpSession)
    /\ WF_vars(ServerTcp) /\ WF_vars(Tick)

\* Sockets: as above with a file size of one byte, and the interpreter
\* finalizing unreferenced sockets when it chooses to.
InitSockets == InitWith([fs : {1}, t : {1}, u : {1}], MaxOffers - 1)

NextSockets == NextErrors \/ \E i \in ThreadIds : UdpSocketFinalized(i)

SpecSockets == InitSockets /\ [][NextSockets]_vars

\* Session socket: one Offer is heard, the user asks for one UDP session of
\* one byte or of two segments, and other hosts send datagrams to the
\* session's socket.
InitSession == InitWith([fs : {1, BUFFER_SIZE + 1}, t : {0}, u : {1}],
                        MaxOffers - 1)

NextSession == NextUdp \/ \E i \in ThreadIds : ForeignToSession(i)

SpecSession == InitSession /\ [][NextSession]_vars

\* Concurrent requests: one Offer is heard and the user asks for two UDP
\* sessions of two segments each.
InitConcurrent == InitWith([fs : {BUFFER_SIZE + 1}, t : {0}, u : {2}],
                           MaxOffers - 1)

SpecConcurrent == InitConcurrent /\ [][NextUdp]_vars

\* Rounds: every Offer of the run may be heard, and the user asks for one
\* UDP session of one byte.
InitRounds == InitWith([fs : {1}, t : {0}, u : {1}], 0)

SpecRounds == InitRounds /\ [][NextUdp]_vars

\* Malformed requests: one Offer is heard, the user asks for one TCP session
\* of 7 bytes or of more than one chunk, and other hosts connect to the
\* server's TCP port.
InitMalformed == InitWith([fs : {7, CHUNK_SIZE + 1}, t : {1}, u : {0}],
                          MaxOffers - 1)

NextMalformed == NextTcp \/ ForeignConnect

SpecMalformed == InitMalformed /\ [][NextMalformed]_vars

\* Broadcaster: as for the rounds, and the broadcaster's sendto may fail.
NextBroadcast == NextUdp \/ SendOfferFails

SpecBroadcast == InitRounds /\ [][NextBroadcast]_vars

\* ------------------------------------------------------------ claims
Kind(k) == {i \in DOMAIN threads : threads[i].kind = k}

\* C1: for an accepted Offer and the TransferRequest the user entered, the
\* thread list holds exactly tcpConnections TCP sessions and udpConnections
\* UDP sessions, all of them started once the start loop is over, and when
\* the round is reported complete exactly T + U sessions are terminal.
C1_ExactFanOut ==
    round > 0 =>
        /\ Cardinality(Kind("TCP")) = stdin.t
        /\ Cardinality(Kind("UDP")) = stdin.u
        /\ Len(threads) = stdin.t + stdin.u
        /\ cpc # "start" => \A i \in DOMAIN threads : threads[i].st # "new"
        /\ cpc = "listen" =>
               Cardinality({i \in DOMAIN threads : Terminated(threads[i])})
                   = stdin.t + stdin.u

C1_Witness ==
    /\ round > 0
    /\ cpc = "listen"
    /\ stdin.t > 0 /\ stdin.u > 0
    /\ stdin.t + stdin.u = MaxConn
    /\ Cardinality({i \in DOMAIN threads : threads[i].st = "finished"})
           = MaxConn

\* C2: the round is reported complete only when every session of the round
\* has terminated: the join loop has passed only terminated threads, and
\* once it is over, and after the report, no session is still running.
C2_CompleteAfterAll ==
    /\ cpc = "join" => \A i \in DOMAIN threads : i < ci => Terminated(threads[i])
    /\ (cpc = "listen" /\ round > 0) =>
           \A i \in DOMAIN threads : Terminated(threads[i])

C2_Witness ==
    /\ cpc = "listen"
    /\ round > 0
    /\ Len(threads) > 1
    /\ threads[1].st = "finished"
    /\ threads[Len(threads)].total > 0

UdpRunning(i) ==
    i \in DOMAIN threads /\ threads[i].kind = "UDP"
        /\ threads[i].st \in {"run", "recv"}

UdpFinished(i) ==
    i \in DOMAIN threads /\ threads[i].kind = "UDP" /\ threads[i].st = "finished"

\* C3: a UDP session leaves its receive loop only at a read that timed out
\* (empty buffer, a full timeout since the read began), never on a receive:
\* a receive adds the datagram's length, starts a fresh timeout and keeps the
\* session reading, also when the expected bytes are all in.  No read waits
\* beyond its timeout, and the elapsed time of a finished session includes a
\* full timeout.
C3_EndsAtFirstTimeout ==
    /\ [][\A i \in ThreadIds :
            (i \in DOMAIN threads /\ i \in DOMAIN threads' /\ round' = round
                /\ Reading(threads[i])) =>
                /\ threads'[i].st \in {"recv", "finished"}
                /\ threads'[i].st = "finished" =>
                       /\ threads[i].sock = <<>>
                       /\ threads[i].idle = UDP_TIMEOUT
                /\ Len(threads'[i].sock) < Len(threads[i].sock) =>
                       /\ threads'[i].st = "recv"
                       /\ threads'[i].total =
                              threads[i].total + DLen(Head(threads[i].sock).data)
                       /\ threads'[i].idle = 0]_vars
    /\ [](\A i \in DOMAIN threads :
            /\ Reading(threads[i]) => threads[i].idle <= UDP_TIMEOUT
            /\ UdpFinished(i) => threads[i].elapsed >= UDP_TIMEOUT)

C3_Witness ==
    \E i \in DOMAIN threads :
        /\ UdpFinished(i)
        /\ threads[i].fs > 0
        /\ threads[i].total >= threads[i].fs
        /\ threads[i].elapsed > UDP_TIMEOUT

\* C4: whatever is lost, a UDP session that was started terminates, and it
\* does so one timeout after its last receive, or after its Request when it
\* received nothing.
C4_TerminatesAfterLoss ==
    /\ \A i \in ThreadIds :
           UdpRunning(i) ~> (i \in DOMAIN threads /\ Terminated(threads[i]))
    /\ [](\A i \in DOMAIN threads :
            UdpFinished(i) => threads[i].idle = UDP_TIMEOUT)

C4_Witness ==
    \E i \in DOMAIN threads :
        /\ UdpFinished(i)
        /\ threads[i].fs > BUFFER_SIZE
        /\ threads[i].total = 0
        /\ \E h \in DOMAIN udpHandlers : udpHandlers[h].out # <<>>

\* byte-level reading of a Request: 13 bytes or more, AB CD DC BA, type 3
IsRequest(d) ==
    /\ DLen(d) >= 13
    /\ <<ByteAt(d, 1), ByteAt(d, 2), ByteAt(d, 3), ByteAt(d, 4)>>
           = <<171, 205, 220, 186>>
    /\ ByteAt(d, 5) = 3

CeilDiv(n, d) == (n + d - 1) \div d

\* C6: for a valid Request of n bytes the handler sends ceil(n / 1024)
\* Payloads to the requester, with segment indices 0, 1, ... in this order
\* and the same total in each; the total is 0, 1, 1, 2 for n = 0, 1, 1024,
\* 1025.
C6_SegmentsSent ==
    /\ TotalSegments(0) = 0 /\ TotalSegments(1) = 1
    /\ TotalSegments(1024) = 1 /\ TotalSegments(1025) = 2
    /\ \A h \in DOMAIN udpHandlers :
           LET hd == udpHandlers[h]
               want == CeilDiv(UnpackRequest(hd.data).file_size, 1024)
           IN  IsRequest(hd.data) =>
                   /\ Len(hd.out) <= want
                   /\ hd.pc = "done" => Len(hd.out) = want
                   /\ \A j \in DOMAIN hd.out :
                          /\ hd.out[j].to = hd.client_addr
                          /\ UnpackPayload(hd.out[j].data).magic_cookie = MAGIC_COOKIE
                          /\ UnpackPayload(hd.out[j].data).message_type = 4
                          /\ UnpackPayload(hd.out[j].data).segment = j - 1
                          /\ UnpackPayload(hd.out[j].data).total_segments = want

C6_Witness ==
    \E h \in DOMAIN udpHandlers :
        /\ IsRequest(udpHandlers[h].data)
        /\ UnpackRequest(udpHandlers[h].data).file_size = 1024
        /\ udpHandlers[h].pc = "done"
        /\ Len(udpHandlers[h].out) = 1

RECURSIVE SumLen(_)
SumLen(q) == IF q = <<>> THEN 0 ELSE DLen(Head(q).data) + SumLen(Tail(q))

\* the handler that served the Request of thread i of this round has sent
\* all its Payloads and the session has received every byte of them
AllDelivered(i, h) ==
    /\ UdpFinished(i)
    /\ udpHandlers[h].client_addr = <<round, i>>
    /\ IsRequest(udpHandlers[h].data)
    /\ udpHandlers[h].pc = "done"
    /\ threads[i].total = SumLen(udpHandlers[h].out)

\* C7: a UDP session of fileSize > 0 whose Request is served and whose
\* Payloads all arrive has received ceil(fileSize / 1024) datagrams of 1024
\* bytes (5 for 5000) and reports a success rate of 100.
C7_LosslessIsComplete ==
    \A i \in DOMAIN threads : \A h \in DOMAIN udpHandlers :
        (AllDelivered(i, h) /\ threads[i].fs > 0) =>
            /\ \A j \in DOMAIN udpHandlers[h].out :
                   DLen(udpHandlers[h].out[j].data) = 1024
            /\ threads[i].total = CeilDiv(threads[i].fs, 1024) * 1024
            /\ threads[i].fs = 5000 => threads[i].total = 5 * 1024
            /\ threads[i].rate[1] = 100 * threads[i].rate[2]

C7_Witness ==
    \E i \in DOMAIN threads : \E h \in DOMAIN udpHandlers :
        /\ AllDelivered(i, h)
        /\ threads[i].fs = 5000
        /\ threads[i].total = 5120

\* C8: the reported success rate is at most 100; it is bytesReceived /
\* fileSize * 100 below that and exactly 100 once bytesReceived >= fileSize.
C8_RateClamped ==
    \A i \in DOMAIN threads :
        (UdpFinished(i) /\ threads[i].fs > 0) =>
            /\ threads[i].rate[2] > 0
            /\ threads[i].rate[1] <= 100 * threads[i].rate[2]
            /\ threads[i].total >= threads[i].fs =>
                   threads[i].rate[1] = 100 * threads[i].rate[2]
            /\ threads[i].total < threads[i].fs =>
                   threads[i].rate = <<100 * threads[i].total, threads[i].fs>>

C8_Witness ==
    \E i \in DOMAIN threads :
        /\ UdpFinished(i)
        /\ threads[i].fs > 0
        /\ threads[i].total > threads[i].fs
        /\ threads[i].rate = <<100 * threads[i].fs, threads[i].fs>>

\* C5: the file size the server's handler uses is the integer the client
\* sent, however the request line is cut into reads; the handler has sent
\* exactly that many bytes when it closes, and the session has received
\* exactly that many when it sees EOF.
C5_TcpEndToEnd ==
    \A k \in DOMAIN conns :
        LET c == conns[k]
            th == threads[c.peer[2]]
        IN  c.peer[1] = round =>
                /\ c.file_size # None => c.file_size = th.fs
                /\ c.closed => c.bytes_sent = th.fs
                /\ th.st = "finished" => th.total = th.fs

\* C9: a datagram on the server's UDP socket that is no valid Request has
\* no effect: its handler sends nothing, and receiving it changes neither
\* the server's threads nor any connection or session.
C9_InvalidDiscarded ==
    /\ [][(srvSock # <<>> /\ srvSock' = Tail(srvSock)
              /\ ~IsRequest(Head(srvSock).data)) =>
             /\ acceptThreads' = acceptThreads
             /\ conns' = conns
             /\ threads' = threads]_vars
    /\ [](\A h \in DOMAIN udpHandlers :
            ~IsRequest(udpHandlers[h].data) => udpHandlers[h].out = <<>>)

\* byte-level reading of an Offer: 9 bytes or more, AB CD DC BA, type 2
IsOffer(d) ==
    /\ DLen(d) >= 9
    /\ <<ByteAt(d, 1), ByteAt(d, 2), ByteAt(d, 3), ByteAt(d, 4)>>
           = <<171, 205, 220, 186>>
    /\ ByteAt(d, 5) = 2

\* the 16-bit big-endian number at bytes k, k + 1
PortAt(d, k) == ByteAt(d, k) * 256 + ByteAt(d, k + 1)

\* C10: the discovery loop starts a round exactly on a datagram of 9 bytes
\* or more with the magic cookie and type OFFER, and the round's sessions
\* use the ports of that datagram; on any other datagram it spawns nothing,
\* changes nothing and goes on listening.
C10_OnlyValidOffers ==
    [][(cpc = "listen" /\ cliSock # <<>> /\ cliSock' = Tail(cliSock)) =>
          LET d == Head(cliSock).data
          IN  IF IsOffer(d)
              THEN /\ round' = round + 1
                   /\ Len(threads') = stdin.t + stdin.u
                   /\ \A i \in DOMAIN threads' :
                          /\ threads'[i].st = "new"
                          /\ threads'[i].port =
                                 IF threads'[i].kind = "TCP"
                                 THEN PortAt(d, 8) ELSE PortAt(d, 6)
              ELSE /\ cpc' = "listen"
                   /\ UNCHANGED <<stdin, file_size, tcp_connections,
                                  udp_connections, ci, round, threads, conns,
                                  srvSock, acceptThreads, udpHandlers>>]_vars

C10_Witness ==
    /\ round > 0
    /\ Len(threads) = 2
    /\ threads[1].port = TCP_PORT + 1
    /\ threads[2].port = UDP_PORT + 1
    /\ threads[1].st = "error"

\* the session of thread i has ended with its error line
Failed(i) == i \in DOMAIN threads /\ threads[i].st = "error"

\* C11: the step in which a session fails with a transport error changes
\* nothing of any other session, of any other connection, of the discovery
\* loop or of the broadcaster; and a round in which a session has failed is
\* still reported complete, with every session of the round terminal and
\* the client listening again.
C11_ErrorIsLocal ==
    /\ [][\A i \in ThreadIds :
            (i \in DOMAIN threads /\ round' = round
                /\ threads[i].st # "error" /\ threads'[i].st = "error") =>
                /\ \A j \in DOMAIN threads \ {i} : threads'[j] = threads[j]
                /\ \A k \in DOMAIN conns :
                       conns[k].peer # <<round, i>> => conns'[k] = conns[k]
                /\ UNCHANGED <<cpc, ci, round, cliSock, srvSock, udpHandlers,
                               acceptThreads, bsleep, offers>>]_vars
    /\ \A i \in ThreadIds :
           Failed(i) ~>
               /\ cpc = "listen"
               /\ \A j \in DOMAIN threads :
                      threads[j].st \in {"finished", "error"}

C11_Witness ==
    /\ cpc = "listen"
    /\ round > 0
    /\ \E i, j \in DOMAIN threads :
           /\ threads[i].st = "error"
           /\ threads[j].st = "finished"
           /\ threads[j].total >= threads[j].fs

\* C12: a session that has terminated, normally or with an error, has
\* closed its socket, and a connection handler that has ended has closed
\* its connection; so with the round reported complete no socket of a
\* session is open.
C12_SocketsClosed ==
    /\ \A i \in DOMAIN threads : Terminated(threads[i]) => ~threads[i].open
    /\ \A k \in DOMAIN conns : conns[k].hpc = "done" => conns[k].closed

TcpRunning(i) ==
    i \in DOMAIN threads /\ threads[i].kind = "TCP"
        /\ threads[i].st \in {"run", "recv"}

\* C13: in a TCP transfer of fileSize = 0 the handler never enters its send
\* loop, sends no byte and closes; the session receives nothing, does not
\* fail, and once started it finishes, with 0 bytes and a speed that is a
\* defined number equal to 0, whatever the elapsed time, 0 included.
C13_ZeroTcp ==
    /\ [](\A i \in DOMAIN threads :
            (threads[i].kind = "TCP" /\ threads[i].fs = 0) =>
                /\ threads[i].total = 0
                /\ threads[i].st # "error"
                /\ threads[i].st = "finished" =>
                       /\ threads[i].speed[2] > 0
                       /\ threads[i].speed[1] = 0
                       /\ ~threads[i].open
                /\ \A k \in DOMAIN conns :
                       conns[k].peer = <<round, i>> =>
                           /\ conns[k].bytes_sent = 0
                           /\ conns[k].s2c = 0
                           /\ conns[k].hpc # "send"
                           /\ conns[k].hpc = "done" =>
                                  conns[k].closed /\ conns[k].file_size = 0)
    /\ \A i \in ThreadIds :
           (TcpRunning(i) /\ threads[i].fs = 0) ~>
               (i \in DOMAIN threads /\ threads[i].st = "finished")

C13_Witness ==
    \E i \in DOMAIN threads :
        /\ threads[i].kind = "TCP"
        /\ threads[i].fs = 0
        /\ threads[i].st = "finished"
        /\ threads[i].elapsed = 0
        /\ \E k \in DOMAIN conns : conns[k].peer = <<round, i>> /\ conns[k].closed

\* byte-level reading of a Payload: 21 bytes or more, AB CD DC BA, type 4
IsPayload(d) ==
    /\ DLen(d) >= 21
    /\ <<ByteAt(d, 1), ByteAt(d, 2), ByteAt(d, 3), ByteAt(d, 4)>>
           = <<171, 205, 220, 186>>
    /\ ByteAt(d, 5) = 4

\* C14: when a UDP session takes from its socket a datagram that is no
\* Payload (wrong magic cookie, wrong type, or shorter than the Payload
\* header), its count of received bytes stays as it was.
C14_OnlyPayloadsCounted ==
    [][\A i \in ThreadIds :
          (i \in DOMAIN threads /\ i \in DOMAIN threads' /\ round' = round
              /\ Reading(threads[i]) /\ threads[i].sock # <<>>
              /\ threads'[i].sock = Tail(threads[i].sock)
              /\ ~IsPayload(Head(threads[i].sock).data)) =>
              threads'[i].total = threads[i].total]_vars

\* C15: whatever datagrams the server has received, exactly one
\* accept_tcp_connections loop is running.
C15_OneAcceptLoop == acceptThreads = 1

\* the handlers serving a Request that came from address a
HandlersOf(a) ==
    {h \in DOMAIN udpHandlers :
        udpHandlers[h].client_addr = a /\ IsRequest(udpHandlers[h].data)}

\* C16: with several Requests being served at once, every handler sends
\* Payloads to its own requester only, ceil(fileSize / 1024) of them when it
\* is done; what a session has received or has in its buffer is no more
\* than what the handler of its own Request has sent; and a datagram
\* waiting on the server's socket can be received whatever the send loops
\* in progress.
C16_RequestsIndependent ==
    /\ \A h \in DOMAIN udpHandlers :
           LET hd == udpHandlers[h]
               want == CeilDiv(UnpackRequest(hd.data).file_size, 1024)
           IN  IsRequest(hd.data) =>
                   /\ \A j \in DOMAIN hd.out : hd.out[j].to = hd.client_addr
                   /\ Len(hd.out) <= want
                   /\ hd.pc = "done" => Len(hd.out) = want
    /\ \A i \in DOMAIN threads :
           threads[i].kind = "UDP" =>
               /\ Cardinality(HandlersOf(<<round, i>>)) <= 1
               /\ \A h \in HandlersOf(<<round, i>>) :
                      threads[i].total + SumLen(threads[i].sock)
                          <= SumLen(udpHandlers[h].out)
               /\ HandlersOf(<<round, i>>) = {} =>
                      threads[i].total = 0 /\ threads[i].sock = <<>>
    /\ srvSock # <<>> => ENABLED ServerRecv

C16_Witness ==
    \E g, h \in DOMAIN udpHandlers :
        /\ udpHandlers[g].client_addr # udpHandlers[h].client_addr
        /\ IsRequest(udpHandlers[g].data) /\ IsRequest(udpHandlers[h].data)
        /\ udpHandlers[g].pc = "send" /\ udpHandlers[g].segment = 1
        /\ udpHandlers[h].pc = "send" /\ udpHandlers[h].segment = 1
        /\ threads[udpHandlers[g].client_addr[2]].total = BUFFER_SIZE
        /\ threads[udpHandlers[h].client_addr[2]].sock # <<>>

\* a session that has been started and has not terminated
Running(th) == th.st \in {"run", "recv"}

\* C17: a datagram is taken from the discovery socket only while the client
\* listens, one at a time; a round starts only then, on one datagram, with
\* every session of the round before terminated; while a session runs the
\* client is in its start or join loop; and the rounds started and the
\* Offers still queued never outnumber the Offers sent.
C17_OneRoundAtATime ==
    /\ [][(Len(cliSock') < Len(cliSock) \/ round' # round) =>
             /\ cpc = "listen"
             /\ cliSock' = Tail(cliSock)
             /\ round' \in {round, round + 1}
             /\ \A i \in DOMAIN threads : Terminated(threads[i])]_vars
    /\ []((\E i \in DOMAIN threads : Running(threads[i])) => cpc # "listen")
    /\ [](round + Len(cliSock) <= offers)

C17_Witness ==
    /\ round = 1
    /\ cliSock # <<>>
    /\ IsOffer(Head(cliSock).data)
    /\ \E i \in DOMAIN threads : threads[i].st = "recv"

\* the handler of connection k has ended on a first read that int() rejected
Rejected(c) == c.hpc = "done" /\ c.file_size = None

\* C18: a handler whose first read is no integer has sent nothing and has
\* closed its connection; and the step in which it ends changes no other
\* connection, no session, no UDP handler, and neither the accept loops nor
\* the broadcaster.
C18_MalformedIsLocal ==
    /\ [](\A k \in DOMAIN conns :
            Rejected(conns[k]) =>
                /\ conns[k].bytes_sent = 0
                /\ conns[k].s2c = 0
                /\ conns[k].closed)
    /\ [][\A k \in DOMAIN conns :
            (conns[k].hpc = "recv" /\ Rejected(conns'[k])) =>
                /\ \A j \in DOMAIN conns \ {k} : conns'[j] = conns[j]
                /\ UNCHANGED <<clientMain, threads, serverUdp, envVars>>]_vars

C18_Witness ==
    \E k, j \in DOMAIN conns :
        /\ conns[k].peer = FOREIGN_ADDR
        /\ Rejected(conns[k])
        /\ conns[k].closed
        /\ conns[j].peer = <<round, 1>>
        /\ conns[j].closed
        /\ conns[j].bytes_sent > CHUNK_SIZE
        /\ threads[1].st = "finished"

\* C19: the broadcaster calls sendto only when its wait is over, and after
\* every call, failed or not, it waits a full BROADCAST_INTERVAL before the
\* next.
C19_IntervalBetweenSends ==
    [][offers' = offers + 1 =>
          /\ bsleep = 0
          /\ bsleep' = BROADCAST_INTERVAL]_vars

\* C20: for a UDP session of fileSize = 0 the handler of its Request sends
\* no Payload; the session receives nothing and, once finished, has waited
\* exactly one timeout, has 0 bytes, a speed of 0 and a success rate that is
\* a defined number equal to 0.
C20_ZeroUdp ==
    \A i \in DOMAIN threads :
        (threads[i].kind = "UDP" /\ threads[i].fs = 0) =>
            /\ \A h \in HandlersOf(<<round, i>>) :
                   /\ udpHandlers[h].out = <<>>
                   /\ udpHandlers[h].pc # "send"
            /\ threads[i].total = 0
            /\ threads[i].sock = <<>>
            /\ threads[i].st # "error"
            /\ threads[i].st = "finished" =>
                   /\ threads[i].elapsed = UDP_TIMEOUT
                   /\ threads[i].rate[2] > 0
                   /\ threads[i].rate[1] = 0
                   /\ threads[i].speed[2] > 0
                   /\ threads[i].speed[1] = 0

C20_Witness ==
    \E i \in DOMAIN threads :
        /\ UdpFinished(i)
        /\ threads[i].fs = 0
        /\ \E h \in HandlersOf(<<round, i>>) : udpHandlers[h].pc = "done"

====
